---- MODULE Spec2Model ----
(***************************************************************************)
(* Model of glidertrace.py: the IGC logger-file parser (coordinate codec,  *)
(* header parser, record ingestion), the Task constructor and the Flight   *)
(* aggregate.                                                              *)
(*                                                                         *)
(* Conventions.  A string is a sequence of one-character strings.  A float *)
(* produced by fixtofloat is represented exactly by the integer            *)
(* 60000 * value (degrees in units of 1/60000).  An altitude in feet is    *)
(* represented by the integer 100 * value.  A call that may raise returns  *)
(* a record whose err field names the exception class ("none" when the     *)
(* call returns normally).                                                 *)
(***************************************************************************)
EXTENDS Integers, Sequences, FiniteSets, TLC

VARIABLES
    token,      \* codec: the fixstring handed to fixtofloat
    decoded,    \* codec: what fixtofloat did with it
    hline,      \* header parser: the line handed to header_dict
    today,      \* datetime.date.today().year
    headers,    \* read_headers: the headers dictionary
    err,        \* the exception that ended the operation ("none": still running
                \* or returned normally, "pending": not started)
    arg_names,  \* Task(...): the turnpoint_list argument
    arg_latlon, \* Task(...): the latlon_list argument
    arg_barrels,\* Task(...): the barrels argument
    tpfile,     \* the records of TURNPOINT_FILE
    task,       \* Task(...): the object constructed
    lookups,    \* number of calls of locate_turnpoints so far
    lookup,     \* locate_turnpoints(arg_names) called on its own: the
                \* dictionary returned and the number of records read
    file,       \* GliderFlight(filename, ...): the lines of the file
    skip_declaration,   \* GliderFlight(...): the skip_declaration argument
    pc,         \* where GliderFlight.__init__ is: "read_headers", "ingest",
                \* "done" (returned), "failed" (raised), "idle" (not called)
    pos,        \* ifp: number of lines read so far (the file position)
    head_last,  \* read_headers: head_last (Unset while unbound)
    times,      \* self.trace.times
    alt,        \* self.trace.alt
    gpsalt,     \* self.trace.gpsalt
    lat,        \* GliderFlight.__init__: lat
    lon,        \* GliderFlight.__init__: lon
    tp_names,   \* GliderFlight.__init__: tp_names
    tp_lat,     \* GliderFlight.__init__: tp_lat
    tp_lon,     \* GliderFlight.__init__: tp_lon
    declared,   \* GliderFlight.__init__: declared
    flights,    \* the Flight objects constructed so far; a field that holds a
                \* mutable object holds its address in heap
    heap,       \* the mutable objects (lists, dictionaries) by address
    mutations,  \* number of changes the caller has made to Flights' fields
    os_points   \* check_points: what self.os_points() returns, the vertices
                \* of the trace in the planar frame, <<easting, northing>> in
                \* metres

codecVars == <<token, decoded>>
headerVars == <<hline, today, headers, err>>
taskVars == <<arg_names, arg_latlon, arg_barrels, tpfile, task, lookups, lookup>>
localVars == <<times, alt, gpsalt, lat, lon, tp_names, tp_lat, tp_lon, declared>>
parseVars == <<file, skip_declaration, pc, pos, head_last, localVars,
               flights, heap, mutations, os_points>>
vars == <<token, decoded, hline, today, headers, err,
          arg_names, arg_latlon, arg_barrels, tpfile, task, lookups, lookup,
          file, skip_declaration, pc, pos, head_last,
          times, alt, gpsalt, lat, lon, tp_names, tp_lat, tp_lon, declared,
          flights, heap, mutations, os_points>>

----------------------------------------------------------------------------
(* Strings and numbers                                                     *)

Digits == {"0", "1", "2", "3", "4", "5", "6", "7", "8", "9"}

DigitVal(c) ==
    CASE c = "0" -> 0 [] c = "1" -> 1 [] c = "2" -> 2 [] c = "3" -> 3
      [] c = "4" -> 4 [] c = "5" -> 5 [] c = "6" -> 6 [] c = "7" -> 7
      [] c = "8" -> 8 [] c = "9" -> 9

IsDigits(s) == Len(s) > 0 /\ \A i \in 1..Len(s) : s[i] \in Digits

RECURSIVE Num(_)
Num(s) == IF Len(s) = 0 THEN 0
          ELSE 10 * Num(SubSeq(s, 1, Len(s) - 1)) + DigitVal(s[Len(s)])

\* Python slice s[a:b] with a >= 0 counted from the left and b <= 0 counted
\* from the right end (b = 0 standing for "to the end").
SliceFromLeft(s, a, b) == SubSeq(s, a + 1, Len(s) + b)

\* Python slice s[a:b] with both a < 0 and b <= 0 counted from the right end.
SliceFromRight(s, a, b) ==
    SubSeq(s, (IF Len(s) + a < 0 THEN 0 ELSE Len(s) + a) + 1, Len(s) + b)

\* Python slice s[a:] with a < 0: the last -a characters (all when shorter).
LastChars(s, a) ==
    SubSeq(s, (IF Len(s) + a < 0 THEN 0 ELSE Len(s) + a) + 1, Len(s))

----------------------------------------------------------------------------
(* Coordinate codec                                                        *)

MinutesScale == 60000

Raise(e) == [err |-> e, val |-> 0]
Return(v) == [err |-> "none", val |-> v]
NotDecoded == [err |-> "pending", val |-> 0]

\* float(a) + float(b) / 60000., as the integer 60000 * value; float() of a
\* string that is empty or holds a non-digit raises ValueError.
DegMin(a, b) ==
    IF IsDigits(a) /\ IsDigits(b)
    THEN Return(MinutesScale * Num(a) + Num(b))
    ELSE Raise("ValueError")

Negated(r) == IF r.err = "none" THEN Return(0 - r.val) ELSE r

fixtofloat_SignIgnored(fixstring) ==
    IF Len(fixstring) = 0 THEN Raise("IndexError")
    ELSE IF fixstring[Len(fixstring)] \in {"N", "E", "S", "W"}
    THEN DegMin(SliceFromLeft(fixstring, 0, -6),
                SliceFromRight(fixstring, -6, -1))
    ELSE Raise("UserWarning")

fixtofloat(fixstring) ==
    IF Len(fixstring) = 0 THEN Raise("IndexError")
    ELSE IF fixstring[Len(fixstring)] \in {"N", "E"}
    THEN DegMin(SliceFromLeft(fixstring, 0, -6),
                SliceFromRight(fixstring, -6, -1))
    ELSE IF fixstring[Len(fixstring)] \in {"S", "W"}
    THEN Negated(DegMin(SliceFromLeft(fixstring, 0, -6),
                        SliceFromRight(fixstring, -6, -1)))
    ELSE Raise("UserWarning")

----------------------------------------------------------------------------
(* Lines of a logger file.  A line is represented by the slices the code   *)
(* takes from it:                                                          *)
(*   first  line[0:1], what startswith() looks at                          *)
(*   head   line[0:5], the header code                                     *)
(*   rest   line[5:] of a header line, line terminator left out            *)
(*   time   <<int(line[1:3]), int(line[3:5]), int(line[5:7])>> (B line)    *)
(*   lat    line[7:15] of a B line, line[1:9] of a C line                  *)
(*   lon    line[15:24] of a B line, line[9:18] of a C line                *)
(*   alt    float(line[25:30]), gpsalt float(line[30:35]) (B line)         *)
(*   tail   line[18:] of a C line, line terminator included                *)

NoText == <<>>

HLine(head, rest) ==
    [first |-> "H", head |-> head, rest |-> rest, time |-> <<0, 0, 0>>,
     lat |-> NoText, lon |-> NoText, alt |-> 0, gpsalt |-> 0, tail |-> NoText]

BLine(t, la, lo, al, ga) ==
    [first |-> "B", head |-> "B", rest |-> NoText, time |-> t,
     lat |-> la, lon |-> lo, alt |-> al, gpsalt |-> ga, tail |-> NoText]

CLine(la, lo, tl) ==
    [first |-> "C", head |-> "C", rest |-> NoText, time |-> <<0, 0, 0>>,
     lat |-> la, lon |-> lo, alt |-> 0, gpsalt |-> 0, tail |-> tl]

\* Any other record (A, I, G, ... or a blank line).
OtherLine(first) ==
    [first |-> first, head |-> first, rest |-> NoText, time |-> <<0, 0, 0>>,
     lat |-> NoText, lon |-> NoText, alt |-> 0, gpsalt |-> 0, tail |-> NoText]

\* What readline() returns at end of file: the empty string.
EofLine == OtherLine("")
NoLine == EofLine

----------------------------------------------------------------------------
(* Header parser: header_dict                                              *)

HEADER_KEYS == <<"pilot", "type", "reg", "compno", "date">>
HEADER_FLAGS == <<"HFPLT", "HFGTY", "HFGID", "HFCID", "HFDTE">>

EmptyDict == <<>>

\* dict.update: the entries of e replace or extend those of d.
Update(d, e) == e @@ d

\* dict(zip(HEADER_FLAGS, HEADER_KEYS)).get(code); None is "".
headkey_dict_get(code) ==
    IF \E i \in 1..Len(HEADER_FLAGS) : HEADER_FLAGS[i] = code
    THEN HEADER_KEYS[CHOOSE i \in 1..Len(HEADER_FLAGS) : HEADER_FLAGS[i] = code]
    ELSE ""

\* str.split(':') of the characters after the header code.  The recognized
\* codes hold no colon, so the whole line splits into as many parts, the first
\* of them prefixed by the code.
RECURSIVE Split(_)
Split(s) ==
    IF \A i \in 1..Len(s) : s[i] # ":" THEN <<s>>
    ELSE LET i == CHOOSE k \in 1..Len(s) :
                      s[k] = ":" /\ \A j \in 1..(k - 1) : s[j] # ":"
         IN  <<SubSeq(s, 1, i - 1)>> \o Split(SubSeq(s, i + 1, Len(s)))

Whitespace == {" "}

\* str.strip()
RECURSIVE Strip(_)
Strip(s) ==
    IF Len(s) = 0 THEN s
    ELSE IF s[1] \in Whitespace THEN Strip(Tail(s))
    ELSE IF s[Len(s)] \in Whitespace THEN Strip(SubSeq(s, 1, Len(s) - 1))
    ELSE s

YearBase == 2000
CenturyYears == 100

IsLeap(y) == (y % 4 = 0 /\ y % 100 # 0) \/ y % 400 = 0

DaysInMonth(y, m) ==
    IF m = 2 THEN (IF IsLeap(y) THEN 29 ELSE 28)
    ELSE IF m \in {4, 6, 9, 11} THEN 30 ELSE 31

\* datetime.date(year, month, day) raises ValueError outside the calendar.
ValidDate(y, m, d) ==
    /\ m \in 1..12
    /\ d \in 1..DaysInMonth(y, m)

\* The year of the date header: lines 131-133.
DecodeYear_RollsBackCurrentYear(yy, thisyear) ==
    IF YearBase + yy >= thisyear THEN YearBase + yy - CenturyYears
    ELSE YearBase + yy

DecodeYear(yy, thisyear) ==
    IF YearBase + yy > thisyear THEN YearBase + yy - CenturyYears
    ELSE YearBase + yy

\* A header line that is not the date line: lines 138-145.
KeyValue_AcceptsExtraColons(headkey, rest) ==
    LET tup == Split(rest) IN
    IF Len(tup) < 2 THEN [err |-> "UserWarning", d |-> EmptyDict]
    ELSE LET headval == Strip(tup[2]) IN
         IF Len(headval) > 0 THEN [err |-> "none", d |-> (headkey :> headval)]
         ELSE [err |-> "none", d |-> EmptyDict]

KeyValue(headkey, rest) ==
    LET tup == Split(rest) IN
    IF Len(tup) # 2 THEN [err |-> "UserWarning", d |-> EmptyDict]
    ELSE LET headval == Strip(tup[2]) IN
         IF Len(headval) > 0 THEN [err |-> "none", d |-> (headkey :> headval)]
         ELSE [err |-> "none", d |-> EmptyDict]

\* int() of a slice that is empty or holds a non-digit raises ValueError.
header_dict(line, thisyear) ==
    LET headkey == headkey_dict_get(line.head) IN
    IF headkey = "" THEN [err |-> "none", d |-> EmptyDict]
    ELSE IF headkey = "date"
    THEN LET dd == SubSeq(line.rest, 1, 2)
             mm == SubSeq(line.rest, 3, 4)
             yy == SubSeq(line.rest, 5, 6)
         IN  IF ~(Len(line.rest) >= 6 /\ IsDigits(dd) /\ IsDigits(mm) /\ IsDigits(yy))
             THEN [err |-> "ValueError", d |-> EmptyDict]
             ELSE LET year == DecodeYear(Num(yy), thisyear) IN
                  IF ValidDate(year, Num(mm), Num(dd))
                  THEN [err |-> "none",
                        d |-> (headkey :> <<year, Num(mm), Num(dd)>>)]
                  ELSE [err |-> "ValueError", d |-> EmptyDict]
    ELSE KeyValue(headkey, line.rest)

----------------------------------------------------------------------------
(* Turnpoint lookup and Task                                               *)
(*                                                                         *)
(* A record of TURNPOINT_FILE is represented by what the code reads of it: *)
(*   code    record[1].strip()                                             *)
(*   latdeg  float(record[9][0:2]),   latmin  1000 * float(record[9][3:9]) *)
(*   londeg  float(record[9][11:14]), lonmin  1000 * float(record[9][15:21])*)
(*   ch21    record[9][21], the longitude hemisphere letter                *)
(* and by the latitude hemisphere letter of its line 10, which the code    *)
(* does not read:                                                          *)
(*   ch9     record[9][9]                                                  *)
(* A coordinate is <<lon, lat>>, each the integer 60000 * degrees.         *)

Range(s) == {s[i] : i \in 1..Len(s)}

\* latlon_list: None, or a list.
None == [given |-> FALSE, list |-> <<>>]
Given(l) == [given |-> TRUE, list |-> l]

\* Python truth value of latlon_list: None and the empty list are false.
Truthy(l) == l.given /\ Len(l.list) > 0

\* zip(a, b)
Zip(a, b) ==
    [i \in 1..(IF Len(a) < Len(b) THEN Len(a) ELSE Len(b)) |-> <<a[i], b[i]>>]

\* s[1:-1]
Interior(s) == SubSeq(s, 2, Len(s) - 1)

RecordCoord(rec) ==
    LET lat0 == MinutesScale * rec.latdeg + rec.latmin
        lon0 == MinutesScale * rec.londeg + rec.lonmin
        lat1 == IF rec.ch21 = "S" THEN 0 - lat0 ELSE lat0
        lon1 == IF rec.ch21 = "W" THEN 0 - lon0 ELSE lon0
    IN  <<lon1, lat1>>

\* The while loop of locate_turnpoints from record i on: the dictionary
\* built and the number of records read.
RECURSIVE ScanRecords(_, _, _, _, _)
ScanRecords(table, i, turnpoint_list, ntp, latlon) ==
    IF i > Len(table) THEN [latlon |-> latlon, nread |-> Len(table)]
    ELSE IF table[i].code \in Range(turnpoint_list)
    THEN LET new == (table[i].code :> RecordCoord(table[i])) @@ latlon IN
         IF Cardinality(DOMAIN new) = ntp
         THEN [latlon |-> new, nread |-> i]
         ELSE ScanRecords(table, i + 1, turnpoint_list, ntp, new)
    ELSE ScanRecords(table, i + 1, turnpoint_list, ntp, latlon)

locate_turnpoints_CountsRepeats(turnpoint_list, table) ==
    ScanRecords(table, 1, turnpoint_list, Len(turnpoint_list), EmptyDict)

locate_turnpoints(turnpoint_list, table) ==
    ScanRecords(table, 1, turnpoint_list,
                Cardinality(Range(turnpoint_list)), EmptyDict)

BarrelRadius == 500

\* sgeom.Point(GEOM_CRS.transform_point(lon, lat, SOURCE_CRS)).buffer(500):
\* the disk, named by the coordinate it is centred on and its radius.
Barrel(coord) == [centre |-> coord, radius |-> BarrelRadius]

\* The list the loop of lines 93-96 builds: one disk per entry of names, in
\* order.
Barrels_OnePerCode(names, latlon) ==
    LET firsts == SelectSeq([i \in 1..Len(names) |-> i],
                            LAMBDA i : \A j \in 1..(i - 1) : names[j] # names[i])
    IN  [k \in 1..Len(firsts) |-> Barrel(latlon[names[firsts[k]]])]

Barrels(names, latlon) == [i \in 1..Len(names) |-> Barrel(latlon[names[i]])]

\* The dictionary the loop of lines 82-83 builds: a repeated name keeps the
\* coordinate of its last occurrence.
DictOfPairs(names, coords) ==
    [n \in Range(names) |->
        coords[CHOOSE i \in 1..Len(names) :
                   names[i] = n /\ \A j \in (i + 1)..Len(names) : names[j] # n]]

\* locate_turnpoints not called on its own yet.
NoLookup == [latlon |-> EmptyDict, nread |-> 0 - 1]

NoTask == [names |-> <<>>, latlon |-> EmptyDict, geoms |-> <<>>, built |-> FALSE]

\* Lines 76-86: fill self.latlon.
FillLatlon(names, latlon_list, table) ==
    IF Len(names) > 0
    THEN IF Truthy(latlon_list)
         THEN IF Len(names) # Len(latlon_list.list)
              THEN [err |-> "UserWarning", latlon |-> EmptyDict, lookups |-> 0]
              ELSE [err |-> "none", latlon |-> DictOfPairs(names, latlon_list.list),
                    lookups |-> 0]
         ELSE [err |-> "none", latlon |-> locate_turnpoints(names, table).latlon,
               lookups |-> 1]
    ELSE [err |-> "none", latlon |-> EmptyDict, lookups |-> 0]

\* Task.__init__: err, the object's fields, and the number of calls of
\* locate_turnpoints made.
TaskInit(turnpoint_list, latlon_list, barrels, table) ==
    LET filled == FillLatlon(turnpoint_list, latlon_list, table) IN
    IF filled.err # "none"
    THEN [err |-> filled.err, task |-> NoTask, lookups |-> filled.lookups]
    ELSE IF barrels
    THEN IF \E i \in 1..Len(turnpoint_list) :
                turnpoint_list[i] \notin DOMAIN filled.latlon
         THEN [err |-> "KeyError", task |-> NoTask, lookups |-> filled.lookups]
         ELSE [err |-> "none",
               task |-> [names |-> turnpoint_list, latlon |-> filled.latlon,
                         geoms |-> Barrels(turnpoint_list, filled.latlon),
                         built |-> TRUE],
               lookups |-> filled.lookups]
    ELSE [err |-> "none",
          task |-> [names |-> turnpoint_list, latlon |-> filled.latlon,
                    geoms |-> <<>>, built |-> TRUE],
          lookups |-> filled.lookups]

----------------------------------------------------------------------------
(* Flight aggregate: the pieces of read_headers and GliderFlight.__init__  *)

Unset == 0 - 1

\* ifp.readline() at position p: the next line, or '' at end of file.
ReadLine(f, p) == IF p < Len(f) THEN f[p + 1] ELSE EofLine

\* ifp.tell() after that readline().
TellAfterRead(f, p) == IF p < Len(f) THEN p + 1 ELSE p

\* line.startswith('H')
IsHeaderLine(line) == line.first = "H"

\* Lines 163-164: derive compno from reg when reg is set and compno is not.
WithDerivedCompno_OverridesDeclared(h) ==
    IF "reg" \in DOMAIN h /\ Len(h["reg"]) > 0
    THEN ("compno" :> LastChars(h["reg"], -3)) @@ h
    ELSE h

WithDerivedCompno(h) ==
    IF "reg" \in DOMAIN h /\ Len(h["reg"]) > 0 /\ "compno" \notin DOMAIN h
    THEN ("compno" :> LastChars(h["reg"], -3)) @@ h
    ELSE h

\* METRETOFOOT, in hundredths.
METRETOFOOT == 328

\* Line 242: line.startswith('C') and skip_declaration is False
ProcessesDeclaration_IgnoresSkip(line, skip) == line.first = "C"

ProcessesDeclaration(line, skip) == line.first = "C" /\ skip = FALSE

\* Line 249: line[18:-2]
TurnpointName(line) == SliceFromLeft(line.tail, 0, -2)

\* The address of the list object bound, once and for all, to the default
\* value of Task.__init__'s turnpoint_list parameter (line 72).
DefaultNames == 1

HeapAtImport == <<<<>>>>

\* A Flight as its caller sees it: every field dereferenced.
View(f, h) ==
    [headers |-> h[f.headers], times |-> h[f.times], alt |-> h[f.alt],
     gpsalt |-> h[f.gpsalt], path |-> f.path, names |-> h[f.names],
     latlon |-> h[f.latlon], geoms |-> h[f.geoms]]

ParseIdle ==
    /\ file = <<>> /\ skip_declaration = FALSE /\ pc = "idle" /\ pos = 0
    /\ head_last = Unset
    /\ times = <<>> /\ alt = <<>> /\ gpsalt = <<>> /\ lat = <<>> /\ lon = <<>>
    /\ tp_names = <<>> /\ tp_lat = <<>> /\ tp_lon = <<>> /\ declared = FALSE
    /\ flights = <<>> /\ heap = HeapAtImport /\ mutations = 0
    /\ os_points = <<>>

----------------------------------------------------------------------------
(* Task inputs                                                             *)

MaxNames == 3
MaxCoords == 3

CodeAAA == <<"A", "A", "A">>
CodeBBB == <<"B", "B", "B">>
CodeZZZ == <<"Z", "Z", "Z">>
Codes == {CodeAAA, CodeBBB}
Coords == {<<0 - 205012, 3125012>>, <<60000, 3000000>>}

TableAB ==
    <<[code |-> CodeAAA, latdeg |-> 52, latmin |-> 11136, londeg |-> 0,
       lonmin |-> 6694, ch9 |-> "N", ch21 |-> "E"],
      [code |-> CodeZZZ, latdeg |-> 51, latmin |-> 0, londeg |-> 2,
       lonmin |-> 30000, ch9 |-> "N", ch21 |-> "W"],
      [code |-> CodeBBB, latdeg |-> 53, latmin |-> 59999, londeg |-> 1,
       lonmin |-> 500, ch9 |-> "N", ch21 |-> "W"]>>

Tables == {<<>>, TableAB, SubSeq(TableAB, 1, 2)}

NameLists == UNION {[1..n -> Codes] : n \in 0..MaxNames}
CoordLists == UNION {[1..n -> Coords] : n \in 0..MaxCoords}

TaskIdle ==
    /\ arg_names = <<>> /\ arg_latlon = None /\ arg_barrels = FALSE
    /\ tpfile = TableAB /\ task = NoTask /\ lookups = 0 /\ lookup = NoLookup

TaskSpecInit ==
    /\ arg_names \in NameLists
    /\ arg_latlon \in {None} \cup {Given(l) : l \in CoordLists}
    /\ arg_barrels \in BOOLEAN
    /\ tpfile \in Tables
    /\ task = NoTask /\ lookups = 0 /\ lookup = NoLookup
    /\ err = "pending"
    /\ token = NoText /\ decoded = NotDecoded
    /\ hline = NoLine /\ today = YearBase /\ headers = EmptyDict
    /\ ParseIdle

\* Task(arg_names, arg_latlon, arg_barrels)
ConstructTask ==
    /\ err = "pending"
    /\ LET r == TaskInit(arg_names, arg_latlon, arg_barrels, tpfile) IN
       /\ err' = r.err
       /\ task' = r.task
       /\ lookups' = lookups + r.lookups
    /\ UNCHANGED <<arg_names, arg_latlon, arg_barrels, tpfile, lookup, codecVars,
                   hline, today, headers, parseVars>>

SpecTask == TaskSpecInit /\ [][ConstructTask]_vars

\* C6: Task construction fails with the inconsistent-lengths error
\* (UserWarning) for every explicit code list and explicit coordinate list of
\* different lengths, either list being empty included, and then makes no
\* reference lookup and yields no Task.
C6_InconsistentLengthsAlwaysFail ==
    (err # "pending" /\ arg_latlon.given
        /\ Len(arg_names) # Len(arg_latlon.list))
    => (err = "UserWarning" /\ lookups = 0 /\ ~task.built)

\* C13: a successfully constructed Task has, in barrels mode, exactly one
\* polygon per entry of its turnpoint sequence (a repeated code counted each
\* time), the i-th being the disk of radius 500 around the coordinate the
\* Task holds for the i-th turnpoint; without barrels it has no polygon.
C13_OneBarrelPerTurnpoint ==
    (err = "none" /\ task.built)
    => IF arg_barrels
       THEN /\ Len(task.geoms) = Len(task.names)
            /\ \A i \in 1..Len(task.names) :
                   task.geoms[i] = [centre |-> task.latlon[task.names[i]],
                                    radius |-> 500]
       ELSE task.geoms = <<>>

\* A Task built with barrels from a sequence that visits one turnpoint
\* twice, its coordinates looked up: three polygons.
C13_Witness ==
    /\ err = "none" /\ task.built /\ arg_barrels
    /\ arg_names = <<CodeAAA, CodeBBB, CodeAAA>>
    /\ arg_latlon = None
    /\ Len(task.geoms) = 3
    /\ task.geoms[1] = task.geoms[3] /\ task.geoms[1] # task.geoms[2]

----------------------------------------------------------------------------
(* Codec inputs: every latitude-width and longitude-width token over a     *)
(* small digit alphabet, each hemisphere letter and one letter that is not *)
(* a hemisphere, plus the two tokens of the documentation.                 *)

LatWidth == 8
LonWidth == 9
CodecDigits == {"0", "3", "5"}
Letters == {"N", "S", "E", "W", "X"}

DigitStrings(n) == [1..n -> CodecDigits]

Tokens ==
    {d \o <<l>> : d \in DigitStrings(LatWidth - 1) \cup DigitStrings(LonWidth - 1),
                  l \in Letters}
    \cup {<<"5", "2", "0", "5", "0", "1", "2", "N">>,
          <<"0", "0", "3", "2", "5", "0", "1", "2", "W">>}

CodecInit ==
    /\ token \in Tokens
    /\ decoded = NotDecoded
    /\ hline = NoLine /\ today = YearBase /\ headers = EmptyDict /\ err = "none"
    /\ TaskIdle
    /\ ParseIdle

Decode ==
    /\ decoded = NotDecoded
    /\ decoded' = fixtofloat(token)
    /\ UNCHANGED <<token, headerVars, taskVars, parseVars>>

SpecCodec == CodecInit /\ [][Decode]_vars

\* The value the documentation gives a token: (digits before the last five)
\* + (last five digits)/60000, in units of 1/60000, computed from the token's
\* digits read as one decimal number.
DocumentedValue(tok) ==
    LET whole == Num(SubSeq(tok, 1, Len(tok) - 1))
    IN  MinutesScale * (whole \div 100000) + (whole % 100000)

\* C1: for every latitude-width (8) and longitude-width (9) token of digits
\* followed by a hemisphere letter, fixtofloat returns (digits before the last
\* five) + (last five digits)/60000, negated for S and W and not negated for N
\* and E.
C1_FixToFloatValue ==
    (/\ decoded # NotDecoded
     /\ Len(token) \in {LatWidth, LonWidth}
     /\ IsDigits(SubSeq(token, 1, Len(token) - 1))
     /\ token[Len(token)] \in {"N", "S", "E", "W"})
    => decoded = Return(IF token[Len(token)] \in {"S", "W"}
                        THEN 0 - DocumentedValue(token)
                        ELSE DocumentedValue(token))

\* decode("00325012W") has returned -(3 + 25.012/60) = -205012/60000.
C1_Witness ==
    /\ token = <<"0", "0", "3", "2", "5", "0", "1", "2", "W">>
    /\ decoded = Return(0 - 205012)

----------------------------------------------------------------------------
(* Header parser inputs                                                    *)

MaxRest == 3
FirstYear == 2015
YearSpan == 90

Years == FirstYear..(FirstYear + YearSpan)

RestChars == {":", "x", " "}
Rests == UNION {[1..n -> RestChars] : n \in 0..MaxRest}

TwoDigits == {<<a, b>> : a \in Digits, b \in Digits}
DayMonths == {<<"0", "1", "0", "1">>, <<"3", "1", "1", "2">>,
              <<"2", "9", "0", "2">>, <<"0", "1", "1", "3">>}

TextHeads == {"HFPLT", "HFGTY", "HFGID", "HFCID", "HFFXA", "HSCID"}

HeaderLines ==
    {HLine(h, r) : h \in TextHeads, r \in Rests}
    \cup {HLine("HFDTE", dm \o yy) : dm \in DayMonths, yy \in TwoDigits}
    \cup {HLine("HFDTE", <<"0", "1", "0", "1", "x", "5">>),
          HLine("HFDTE", <<"0", "1", "0", "1">>),
          HLine("HFFXA", <<"0", "3", "5">>)}

SomeHeaders == {EmptyDict, "pilot" :> <<"y">>}

HeaderInit ==
    /\ hline \in HeaderLines
    /\ today \in Years
    /\ headers \in SomeHeaders
    /\ err = "pending"
    /\ token = NoText /\ decoded = NotDecoded
    /\ TaskIdle
    /\ ParseIdle

\* Line 157: headers.update(header_dict(line)).
UpdateHeaders ==
    /\ err = "pending"
    /\ LET r == header_dict(hline, today) IN
       /\ err' = r.err
       /\ headers' = IF r.err = "none" THEN Update(headers, r.d) ELSE headers
    /\ UNCHANGED <<hline, today, codecVars, taskVars, parseVars>>

SpecHeader == HeaderInit /\ [][UpdateHeaders]_vars

\* C9: the date header's year is 2000+YY when 2000+YY <= current year and
\* 1900+YY otherwise; it is never greater than the current year, and YY equal
\* to the current year's last two digits is not rolled back.
C9_YearDecoding ==
    (err = "none" /\ hline.head = "HFDTE")
    => LET yy == Num(SubSeq(hline.rest, 5, 6))
           year == headers["date"][1]
       IN  /\ (2000 + yy <= today => year = 2000 + yy)
           /\ (2000 + yy > today => year = 1900 + yy)
           /\ year <= today
           /\ (yy = today % 100 => year = 2000 + yy)

\* Year digits "99" read in 2024 gave 1999.
C9_Witness ==
    /\ err = "none" /\ hline.head = "HFDTE" /\ today = 2024
    /\ SubSeq(hline.rest, 5, 6) = <<"9", "9">>
    /\ headers["date"][1] = 1999

ColonCount(s) == Cardinality({i \in 1..Len(s) : s[i] = ":"})
RecognizedTextCodes == {"HFPLT", "HFGTY", "HFGID", "HFCID"}
RecognizedCodes == RecognizedTextCodes \cup {"HFDTE"}

\* C10: a header line raises the format error (UserWarning) exactly when its
\* code is a recognized non-date code and the line does not split on ':' into
\* exactly two parts; a line with an unrecognized code never raises and leaves
\* the mapping unchanged; the mapping's keys are always among pilot, type, reg,
\* compno, date.
C10_HeaderFormatError ==
    /\ [](err # "pending" =>
            /\ (err = "UserWarning") <=>
                   (hline.head \in RecognizedTextCodes /\ ColonCount(hline.rest) # 1)
            /\ DOMAIN headers \subseteq {"pilot", "type", "reg", "compno", "date"})
    /\ [][(err = "pending" /\ hline.head \notin RecognizedCodes)
            => (err' = "none" /\ headers' = headers)]_vars

\* "HFPLT:x:x" (three parts) has raised.
C10_Witness ==
    /\ err = "UserWarning"
    /\ hline.head = "HFPLT"
    /\ ColonCount(hline.rest) = 2

----------------------------------------------------------------------------
(* Flight aggregate: GliderFlight(filename, skip_declaration=...)          *)

MaxLines == 5

LatN == <<"5", "2", "0", "5", "0", "1", "2", "N">>
LatS == <<"3", "3", "5", "9", "9", "9", "9", "S">>
LatX == <<"5", "2", "0", "5", "0", "1", "2", "X">>
LonW == <<"0", "0", "3", "2", "5", "0", "1", "2", "W">>
LonE == <<"1", "5", "1", "0", "0", "0", "0", "1", "E">>
LonX == <<"0", "0", "3", "2", "5", "0", "1", "2", "Q">>
CrLf == <<"\r", "\n">>

HPilot == HLine("HFPLT", <<":", "x">>)
HUnknown == HLine("HFFXA", <<"0", "3", "5">>)
ARecord == OtherLine("A")
BFix1 == BLine(<<10, 15, 0>>, LatN, LonW, 100, 120)
BFix2 == BLine(<<10, 15, 4>>, LatS, LonE, 250, 0)
BBadLon == BLine(<<10, 15, 8>>, LatN, LonX, 300, 310)
CTurnA == CLine(LatN, LonW, CodeAAA \o CrLf)
CTurnB == CLine(LatS, LonE, CodeBBB \o CrLf)
CBadLat == CLine(LatX, LonW, CodeZZZ \o CrLf)

FileLines == {HPilot, HUnknown, ARecord, BFix1, BFix2, BBadLon,
              CTurnA, CTurnB, CBadLat}

Files == UNION {[1..n -> FileLines] : n \in 0..MaxLines}

\* The locals of lines 216-222, and the file just opened.
Opened(f, skip) ==
    /\ file' = f /\ skip_declaration' = skip
    /\ pc' = "read_headers" /\ pos' = 0 /\ head_last' = Unset
    /\ headers' = EmptyDict /\ err' = "none"
    /\ times' = <<>> /\ alt' = <<>> /\ gpsalt' = <<>> /\ lat' = <<>> /\ lon' = <<>>
    /\ tp_names' = <<>> /\ tp_lat' = <<>> /\ tp_lon' = <<>> /\ declared' = FALSE

\* GliderFlight(file, skip_declaration=...) has been called and has run
\* lines 216-222 and opened the file.
FlightStart ==
    /\ skip_declaration \in BOOLEAN
    /\ pc = "read_headers" /\ pos = 0 /\ head_last = Unset
    /\ headers = EmptyDict /\ err = "none"
    /\ times = <<>> /\ alt = <<>> /\ gpsalt = <<>> /\ lat = <<>> /\ lon = <<>>
    /\ tp_names = <<>> /\ tp_lat = <<>> /\ tp_lon = <<>> /\ declared = FALSE
    /\ flights = <<>> /\ heap = HeapAtImport /\ mutations = 0
    /\ os_points = <<>>
    /\ today = FirstYear /\ hline = NoLine
    /\ token = NoText /\ decoded = NotDecoded
    /\ TaskIdle

\* One turn of the while loop of read_headers (lines 154-165).
ReadHeaderLine ==
    /\ pc = "read_headers"
    /\ LET line == ReadLine(file, pos)
           after == TellAfterRead(file, pos)
       IN  IF IsHeaderLine(line)
           THEN LET r == header_dict(line, today) IN
                IF r.err = "none"
                THEN /\ headers' = Update(headers, r.d)
                     /\ head_last' = after
                     /\ pos' = after
                     /\ UNCHANGED <<pc, err>>
                ELSE /\ pc' = "failed" /\ err' = r.err
                     /\ pos' = after
                     /\ UNCHANGED <<headers, head_last>>
           ELSE IF Cardinality(DOMAIN headers) = 0
           THEN /\ pos' = after
                /\ UNCHANGED <<pc, err, headers, head_last>>
           ELSE /\ pos' = head_last
                /\ headers' = WithDerivedCompno(headers)
                /\ pc' = "ingest"
                /\ UNCHANGED <<err, head_last>>
    /\ UNCHANGED <<file, skip_declaration, localVars, flights, heap, mutations,
                   today, hline, codecVars, os_points, taskVars>>

\* One turn of the for loop of GliderFlight.__init__ (lines 234-249).
IngestLine ==
    /\ pc = "ingest" /\ pos < Len(file)
    /\ pos' = pos + 1
    /\ LET line == file[pos + 1]
           la == fixtofloat(line.lat)
           lo == fixtofloat(line.lon)
           ok == la.err = "none" /\ lo.err = "none"
           failure == IF la.err # "none" THEN la.err ELSE lo.err
       IN  IF line.first = "B"
           THEN /\ times' = Append(times, line.time)
                /\ lat' = IF la.err = "none" THEN Append(lat, la.val) ELSE lat
                /\ lon' = IF ok THEN Append(lon, lo.val) ELSE lon
                /\ alt' = IF ok THEN Append(alt, line.alt * METRETOFOOT) ELSE alt
                /\ gpsalt' = IF ok THEN Append(gpsalt, line.gpsalt * METRETOFOOT)
                             ELSE gpsalt
                /\ err' = failure
                /\ pc' = IF ok THEN "ingest" ELSE "failed"
                /\ UNCHANGED <<tp_names, tp_lat, tp_lon, declared>>
           ELSE IF ProcessesDeclaration(line, skip_declaration)
           THEN IF ~declared
                THEN /\ declared' = TRUE
                     /\ UNCHANGED <<pc, err, times, alt, gpsalt, lat, lon,
                                    tp_names, tp_lat, tp_lon>>
                ELSE /\ tp_lat' = IF la.err = "none" THEN Append(tp_lat, la.val)
                                  ELSE tp_lat
                     /\ tp_lon' = IF ok THEN Append(tp_lon, lo.val) ELSE tp_lon
                     /\ tp_names' = IF ok THEN Append(tp_names, TurnpointName(line))
                                    ELSE tp_names
                     /\ err' = failure
                     /\ pc' = IF ok THEN "ingest" ELSE "failed"
                     /\ UNCHANGED <<times, alt, gpsalt, lat, lon, declared>>
           ELSE UNCHANGED <<pc, err, localVars>>
    /\ UNCHANGED <<file, skip_declaration, head_last, headers, flights, heap,
                   mutations, today, hline, codecVars, os_points, taskVars>>

\* End of file: lines 251-255.  The Trace's lists, the headers and the Task's
\* dictionary and polygon list are objects made by this call; the Task's
\* names are the slice tp_names[1:-1] when declared and the default
\* turnpoint_list object when not.
FinishFlight ==
    /\ pc = "ingest" /\ pos = Len(file)
    /\ LET t == IF declared
                THEN TaskInit(Interior(tp_names),
                              Given(Zip(Interior(tp_lon), Interior(tp_lat))),
                              FALSE, tpfile)
                ELSE TaskInit(heap[DefaultNames], None, FALSE, tpfile)
           base == Len(heap)
           flight == [headers |-> base + 1, times |-> base + 2, alt |-> base + 3,
                      gpsalt |-> base + 4, path |-> Zip(lon, lat),
                      latlon |-> base + 5, geoms |-> base + 6,
                      names |-> IF declared THEN base + 7 ELSE DefaultNames]
       IN  /\ lookups' = lookups + t.lookups
           /\ IF t.err = "none"
              THEN /\ heap' = heap \o <<headers, times, alt, gpsalt,
                                        t.task.latlon, t.task.geoms>>
                                   \o (IF declared THEN <<t.task.names>> ELSE <<>>)
                   /\ flights' = Append(flights, flight)
                   /\ pc' = "done"
                   /\ UNCHANGED err
              ELSE /\ pc' = "failed" /\ err' = t.err
                   /\ UNCHANGED <<heap, flights>>
    /\ UNCHANGED <<file, skip_declaration, pos, head_last, headers, localVars,
                   mutations, today, hline, codecVars, os_points,
                   arg_names, arg_latlon, arg_barrels, tpfile, task, lookup>>

FlightInit == file \in Files /\ FlightStart

Next == ReadHeaderLine \/ IngestLine \/ FinishFlight

Spec == FlightInit /\ [][Next]_vars

\* The Flight just constructed, as its caller sees it.
Built == View(flights[Len(flights)], heap)

\* The same operations on files that vary the declaration lines: one kind of
\* position line, every kind of header, declaration and other line.
DeclarationFileLines == {HPilot, HUnknown, ARecord, BFix1, CTurnA, CTurnB, CBadLat}

DeclarationFiles == UNION {[1..n -> DeclarationFileLines] : n \in 0..MaxLines}

DeclarationInit == file \in DeclarationFiles /\ FlightStart

SpecDeclaration == DeclarationInit /\ [][Next]_vars

IsB(line) == line.first = "B"
IsC(line) == line.first = "C"
BLinesOf(f) == SelectSeq(f, IsB)
CLinesOf(f) == SelectSeq(f, IsC)

Hemispheres == {"N", "S", "E", "W"}
BadToken(tok) == Len(tok) > 0 /\ tok[Len(tok)] \notin Hemispheres

\* The signed value the documentation gives a well-formed token.
DocumentedSigned(tok) ==
    IF tok[Len(tok)] \in {"S", "W"} THEN 0 - DocumentedValue(tok)
    ELSE DocumentedValue(tok)

\* C2: header parsing consumes no data line: when read_headers has returned,
\* the next line the ingestion loop reads is not a header line and no
\* position (B) or declaration (C) line lies before it.
C2_HeadersConsumeNoDataLine ==
    (pc = "ingest" /\ pos = head_last)
    => /\ ~IsHeaderLine(ReadLine(file, pos))
       /\ \A i \in 1..pos : ~IsB(file[i]) /\ ~IsC(file[i])

WellFormedLine(line) ==
    /\ (IsB(line) \/ IsC(line)) => (~BadToken(line.lat) /\ ~BadToken(line.lon))
    /\ IsHeaderLine(line) => header_dict(line, today).err = "none"

\* C3: a file of well-formed lines with N position (B) lines gives a Trace of
\* exactly N fixes in file order: times, alt, gpsalt and the path have length
\* N and entry i of each describes the i-th B line.
C3_TraceHoldsEveryFix ==
    (pc = "done" /\ \A i \in 1..Len(file) : WellFormedLine(file[i]))
    => LET b == BLinesOf(file) IN
       /\ Built.times = [i \in 1..Len(b) |-> b[i].time]
       /\ Built.alt = [i \in 1..Len(b) |-> b[i].alt * METRETOFOOT]
       /\ Built.gpsalt = [i \in 1..Len(b) |-> b[i].gpsalt * METRETOFOOT]
       /\ Built.path = [i \in 1..Len(b) |->
                           <<DocumentedSigned(b[i].lon), DocumentedSigned(b[i].lat)>>]

\* C4: declarations not skipped, a first C line followed by K >= 2 further C
\* lines: the Task's names are those of the 2nd to (K-1)-th of the K lines, in
\* file order (K-2 names).
C4_InteriorTurnpoints ==
    (pc = "done" /\ ~skip_declaration /\ Len(CLinesOf(file)) >= 3)
    => LET c == CLinesOf(file)
           k == Len(c) - 1
       IN  Built.names = [i \in 1..(k - 2) |-> TurnpointName(c[i + 2])]

\* C5: the Flight's Task is empty (no names, no coordinates, no polygons)
\* whenever no declaration is processed: always when skip_declaration is
\* requested, and for every file without a C line otherwise.
C5_EmptyTaskWithoutDeclaration ==
    (pc = "done" /\ (skip_declaration \/ Len(CLinesOf(file)) = 0))
    => /\ Built.names = <<>>
       /\ Built.latlon = EmptyDict
       /\ Built.geoms = <<>>

\* A file with a header and four C lines, read with skip_declaration, has
\* given a Flight whose Task is empty.
C5_Witness ==
    /\ pc = "done" /\ skip_declaration
    /\ Len(CLinesOf(file)) = 4 /\ IsHeaderLine(file[1])
    /\ Built.names = <<>>

\* C7: a coordinate token ending in a letter other than N, S, E, W makes the
\* parse fail: no Flight is produced from a file that has a position line, or
\* (declarations not skipped) a turnpoint declaration line after the first C
\* line, with such a token.
C7_BadHemisphereFailsParse ==
    pc = "done"
    => /\ \A i \in 1..Len(file) :
              IsB(file[i]) => (~BadToken(file[i].lat) /\ ~BadToken(file[i].lon))
       /\ ~skip_declaration =>
              \A i \in 2..Len(CLinesOf(file)) :
                  /\ ~BadToken(CLinesOf(file)[i].lat)
                  /\ ~BadToken(CLinesOf(file)[i].lon)

----------------------------------------------------------------------------
(* Several Flights: a caller that constructs one Flight after another and, *)
(* between constructions, changes the objects the Flights hold.            *)

MaxFlights == 2
MaxMutations == 2

FrameFiles ==
    {<<HPilot>>,
     <<ARecord, HPilot, BFix1, BFix2>>,
     <<HPilot, CTurnA, CTurnA, CTurnB>>,
     <<HPilot, CTurnA, CTurnA, CTurnB, CTurnA>>}

FrameInit == file \in FrameFiles /\ FlightStart

\* The caller constructs the next Flight: GliderFlight(f, skip_declaration=skip).
OpenNext ==
    /\ pc = "done" /\ Len(flights) < MaxFlights
    /\ \E f \in FrameFiles, skip \in BOOLEAN : Opened(f, skip)
    /\ UNCHANGED <<flights, heap, mutations, lookups, today, hline, codecVars, os_points,
                   arg_names, arg_latlon, arg_barrels, tpfile, task, lookup>>

ListFields == {"times", "alt", "gpsalt", "names", "geoms"}
DictFields == {"headers", "latlon"}

\* What the caller appends to a list, or sets in a dictionary, by field.
Appended(field) ==
    CASE field = "times" -> <<0, 0, 0>>
      [] field = "alt" -> 0
      [] field = "gpsalt" -> 0
      [] field = "names" -> CodeAAA
      [] field = "geoms" -> Barrel(<<0, 0>>)

NewEntry(field) ==
    CASE field = "headers" -> ("reg" :> <<"G">>)
      [] field = "latlon" -> (CodeZZZ :> <<0, 0>>)

\* The caller changes, in place, the object that field of Flight i holds:
\* flights[i].<field>.append(...) or flights[i].<field>[key] = value.
Mutate(i, field) ==
    /\ pc = "done" /\ mutations < MaxMutations
    /\ i \in 1..Len(flights)
    /\ LET a == flights[i][field] IN
       heap' = [heap EXCEPT ![a] =
                   IF field \in ListFields THEN Append(@, Appended(field))
                   ELSE NewEntry(field) @@ @]
    /\ mutations' = mutations + 1
    /\ UNCHANGED <<file, skip_declaration, pc, pos, head_last, localVars, flights,
                   headers, err, today, hline, codecVars, os_points, taskVars>>

MutateAny == \E i \in 1..MaxFlights, field \in ListFields \cup DictFields :
                 Mutate(i, field)

FrameNext == ReadHeaderLine \/ IngestLine \/ FinishFlight \/ OpenNext \/ MutateAny

SpecFrame == FrameInit /\ [][FrameNext]_vars

\* C8: no mutable state is shared between Flights: a change to the Trace
\* lists, Task names, Task coordinates or headers of one Flight leaves every
\* field of every other Flight unchanged, two Flights with empty Tasks
\* included.
C8_FlightsShareNoMutableState ==
    [][\A i \in 1..MaxFlights, field \in ListFields \cup DictFields :
          Mutate(i, field) =>
              \A j \in (1..Len(flights)) \ {i} :
                  View(flights[j], heap)' = View(flights[j], heap)]_vars

----------------------------------------------------------------------------
(* read_headers on header blocks that declare registrations and            *)
(* competition numbers                                                     *)

HRegLong == HLine("HFGID", <<":", " ", "G", "-", "C", "K", "L", "T">>)
HRegShort == HLine("HFGID", <<":", "Z", "9">>)
HRegEmpty == HLine("HFGID", <<":", " ">>)
HCompno1 == HLine("HFCID", <<":", "7", "7", " ">>)
HCompno2 == HLine("HFCID", <<":", "K">>)
HCompnoEmpty == HLine("HFCID", <<":">>)

CompnoFileLines == {HRegLong, HRegShort, HRegEmpty, HCompno1, HCompno2,
                    HCompnoEmpty, HPilot, BFix1}

CompnoFiles == UNION {[1..n -> CompnoFileLines] : n \in 0..MaxLines}

CompnoInit == file \in CompnoFiles /\ FlightStart /\ skip_declaration = TRUE

SpecCompno == CompnoInit /\ [][Next]_vars

\* The value a key:value header line declares.
DeclaredValue(line) == Strip(Split(line.rest)[2])

\* The lines of the header block (the lines read_headers went through before
\* the line it stopped at) that declare a non-empty value under a code.
Declaring(code) ==
    {i \in 1..head_last : file[i].head = code /\ Len(DeclaredValue(file[i])) > 0}

LastOf(S) == CHOOSE i \in S : \A j \in S : j <= i

LastThree(s) == IF Len(s) < 3 THEN s ELSE SubSeq(s, Len(s) - 2, Len(s))

\* C11: when read_headers returns, compno is the last non-empty competition
\* number the header block declared, if any (never a derived one); otherwise
\* the last three characters of the last non-empty registration declared (the
\* whole registration when shorter), if any; otherwise compno is absent.
C11_CompnoDeclaredOrDerived ==
    pc = "ingest"
    => IF Declaring("HFCID") # {}
       THEN /\ "compno" \in DOMAIN headers
            /\ headers["compno"] = DeclaredValue(file[LastOf(Declaring("HFCID"))])
       ELSE IF Declaring("HFGID") # {}
       THEN /\ "compno" \in DOMAIN headers
            /\ headers["compno"] =
                   LastThree(DeclaredValue(file[LastOf(Declaring("HFGID"))]))
       ELSE "compno" \notin DOMAIN headers

\* read_headers has returned from a block that declares two competition
\* numbers and then a registration: compno is the second number declared.
C11_Witness ==
    /\ pc = "ingest"
    /\ head_last = 3
    /\ file[1] = HCompno1 /\ file[2] = HCompno2 /\ file[3] = HRegLong
    /\ headers["compno"] = <<"K">>
    /\ headers["reg"] = <<"G", "-", "C", "K", "L", "T">>

----------------------------------------------------------------------------
(* locate_turnpoints called on its own                                     *)

MaxRecords == 3

RecNE == [code |-> CodeAAA, latdeg |-> 52, latmin |-> 11136, londeg |-> 0,
          lonmin |-> 6694, ch9 |-> "N", ch21 |-> "E"]
RecNW == [code |-> CodeBBB, latdeg |-> 53, latmin |-> 59999, londeg |-> 1,
          lonmin |-> 500, ch9 |-> "N", ch21 |-> "W"]
RecSW == [code |-> CodeZZZ, latdeg |-> 51, latmin |-> 0, londeg |-> 2,
          lonmin |-> 30000, ch9 |-> "S", ch21 |-> "W"]
RecSE == [code |-> CodeAAA, latdeg |-> 33, latmin |-> 51500, londeg |-> 151,
          lonmin |-> 12250, ch9 |-> "S", ch21 |-> "E"]

LookupRecords == {RecNE, RecNW, RecSW, RecSE}
LookupTables == UNION {[1..n -> LookupRecords] : n \in 0..MaxRecords}
LookupCodes == {CodeAAA, CodeBBB, CodeZZZ}
LookupRequests == UNION {[1..n -> LookupCodes] : n \in 0..MaxNames}

LookupInit ==
    /\ arg_names \in LookupRequests
    /\ tpfile \in LookupTables
    /\ arg_latlon = None /\ arg_barrels = FALSE
    /\ task = NoTask /\ lookups = 0 /\ lookup = NoLookup
    /\ err = "pending"
    /\ token = NoText /\ decoded = NotDecoded
    /\ hline = NoLine /\ today = YearBase /\ headers = EmptyDict
    /\ ParseIdle

\* locate_turnpoints(arg_names)
Locate ==
    /\ err = "pending"
    /\ lookup' = locate_turnpoints(arg_names, tpfile)
    /\ lookups' = lookups + 1
    /\ err' = "none"
    /\ UNCHANGED <<arg_names, arg_latlon, arg_barrels, tpfile, task, codecVars,
                   hline, today, headers, parseVars>>

SpecLookup == LookupInit /\ [][Locate]_vars

Located == err = "none" /\ lookup # NoLookup

CodesOf(table, n) == {table[i].code : i \in 1..n}

\* All the distinct requested codes occur among the first n records.
AllResolvedBy(n) == Range(arg_names) \subseteq CodesOf(tpfile, n)

\* C12: locate_turnpoints returns a coordinate for exactly the requested codes
\* that occur as a record code in the table, and reads no record after the one
\* that resolves the last outstanding code: when record n is the first by
\* which every distinct requested code has occurred, n records are read.
C12_LookupResolvesAndStopsEarly ==
    Located
    => /\ DOMAIN lookup.latlon = Range(arg_names) \cap CodesOf(tpfile, Len(tpfile))
       /\ \A n \in 1..Len(tpfile) :
              (AllResolvedBy(n) /\ ~AllResolvedBy(n - 1)) => lookup.nread = n

\* A request that repeats a code, resolved by the second of three records:
\* the third record is not read.
C12_Witness ==
    /\ Located
    /\ arg_names = <<CodeAAA, CodeBBB, CodeAAA>>
    /\ tpfile = <<RecNE, RecNW, RecSW>>
    /\ lookup.nread = 2
    /\ DOMAIN lookup.latlon = {CodeAAA, CodeBBB}

\* The record a resolved code's coordinate is taken from: the last record
\* read that bears the code.
MatchedRecord(c) ==
    tpfile[CHOOSE i \in 1..lookup.nread :
               /\ tpfile[i].code = c
               /\ \A j \in (i + 1)..lookup.nread : tpfile[j].code # c]

\* C16: for every record matched by locate_turnpoints the resolved latitude
\* is negative exactly when the record's latitude hemisphere letter is S,
\* and the resolved longitude is negative exactly when its longitude
\* hemisphere letter is W, each sign decided from its own field.
C16_SignsFromOwnHemisphere ==
    Located
    => \A c \in DOMAIN lookup.latlon :
           /\ lookup.latlon[c][2] < 0 <=> MatchedRecord(c).ch9 = "S"
           /\ lookup.latlon[c][1] < 0 <=> MatchedRecord(c).ch21 = "W"

----------------------------------------------------------------------------
(* Trace.check_points.  The projection into the planar frame is cartopy's; *)
(* check_points is modelled on the planar vertices os_points() returns.    *)

MaxVertices == 3

StepLimit == 2000

\* (eastings[1:] - eastings[:-1]) ** 2 + (northings[1:] - northings[:-1]) ** 2,
\* the squares of the distances of lines 60-61.
SquaredSteps(points) ==
    [i \in 1..(Len(points) - 1) |->
        (points[i + 1][1] - points[i][1]) * (points[i + 1][1] - points[i][1])
      + (points[i + 1][2] - points[i][2]) * (points[i + 1][2] - points[i][2])]

\* Lines 58-63.  distances.max() of an array without an element raises
\* ValueError; sqrt(d) > 2000 exactly when d > 2000 * 2000.
check_points(points) ==
    LET squares == SquaredSteps(points) IN
    IF Len(squares) = 0 THEN Raise("ValueError")
    ELSE IF \E i \in 1..Len(squares) : squares[i] > StepLimit * StepLimit
    THEN Raise("UserWarning")
    ELSE Return(0)

PlanarPoints == {<<0, 0>>, <<2000, 0>>, <<2001, 0>>, <<1200, 1600>>, <<1200, 1601>>}

PlanarTraces == UNION {[1..n -> PlanarPoints] : n \in 0..MaxVertices}

CheckInit ==
    /\ os_points \in PlanarTraces
    /\ err = "pending"
    /\ file = <<>> /\ skip_declaration = FALSE /\ pc = "idle" /\ pos = 0
    /\ head_last = Unset
    /\ times = <<>> /\ alt = <<>> /\ gpsalt = <<>> /\ lat = <<>> /\ lon = <<>>
    /\ tp_names = <<>> /\ tp_lat = <<>> /\ tp_lon = <<>> /\ declared = FALSE
    /\ flights = <<>> /\ heap = HeapAtImport /\ mutations = 0
    /\ token = NoText /\ decoded = NotDecoded
    /\ hline = NoLine /\ today = YearBase /\ headers = EmptyDict
    /\ TaskIdle

\* trace.check_points()
CheckPoints ==
    /\ err = "pending"
    /\ err' = check_points(os_points).err
    /\ UNCHANGED <<os_points, file, skip_declaration, pc, pos, head_last,
                   localVars, flights, heap, mutations, headers, today, hline,
                   codecVars, taskVars>>

SpecCheck == CheckInit /\ [][CheckPoints]_vars

\* Some pair of consecutive vertices is more than 2000 m apart.
ExcessiveStep(points) ==
    \E i \in 1..(Len(points) - 1) :
        (points[i + 1][1] - points[i][1]) * (points[i + 1][1] - points[i][1])
      + (points[i + 1][2] - points[i][2]) * (points[i + 1][2] - points[i][2])
      > 2000 * 2000

\* C14: for every trace, one with fewer than two fixes included, check_points
\* signals the data-quality condition (UserWarning) exactly when some pair of
\* consecutive vertices is more than 2000 m apart, and otherwise completes
\* without signalling.
C14_CheckPointsSignalsExcessiveStep ==
    err # "pending"
    => IF ExcessiveStep(os_points) THEN err = "UserWarning" ELSE err = "none"

----------------------------------------------------------------------------
(* Termination of the parse.  The constructor runs on its own thread of    *)
(* control and keeps taking steps while it has one to take: weak fairness  *)
(* of Next.  A turn of a loop that changes nothing is a stuttering step.   *)

HEmptyValue == HLine("HFPLT", <<":", " ">>)

TerminationFileLines == {HPilot, HUnknown, HEmptyValue, ARecord, BFix1}

TerminationFiles == UNION {[1..n -> TerminationFileLines] : n \in 0..MaxLines}

TerminationInit == file \in TerminationFiles /\ FlightStart

SpecTermination == TerminationInit /\ [][Next]_vars /\ WF_vars(Next)

\* C15: parsing terminates on every finite file: read_headers returns after
\* finitely many line reads whatever the file holds, ingestion then runs to
\* the end of the file, and exactly one Trace is produced (or the parse
\* fails on a malformed line).
C15_ParsingTerminates ==
    <>((pc = "done" /\ Len(flights) = 1) \/ pc = "failed")

====
